---- MODULE Spec2Model ----
(***************************************************************************)
(* Elevo mock interview: the interview session engine of                   *)
(* mock_interview/views.py (provider gateway, start / answer / review      *)
(* handlers), the tutor's status update of tutor/views.py and the stage    *)
(* classifier, as state machines.                                          *)
(*                                                                         *)
(* Texts are abstracted to the classes the code distinguishes, each name   *)
(* standing for one text of its class:                                     *)
(*   ""     no text                                                        *)
(*   "Q"    a provider text of 50 characters or more (a question of nine   *)
(*          words or more)                                                 *)
(*   "S"    a provider text shorter than 50 characters (a question of      *)
(*          fewer than nine words, such as "Why do you want this role?")   *)
(*   "ICQ"  "INTERVIEW_COMPLETE" followed by 50 characters or more         *)
(*   "IC"   "INTERVIEW_COMPLETE" followed by fewer than 50 characters      *)
(*   "QC"   what is left of "ICQ" once the marker is removed               *)
(*   "C"    the handler's built-in closing message (views.py:1694)         *)
(*   "F"    an entry of _get_fallback_response (each has 58 characters or  *)
(*          more); which entry is kept beside the text                     *)
(***************************************************************************)
EXTENDS Integers, Sequences, FiniteSets, TLC

VARIABLES
    AI_PROVIDER,      \* views.py:79   settings.AI_PROVIDER, lower-cased
    GEMINI_API_KEY,   \* views.py:80   TRUE when a Gemini key is set
    OPENAI_API_KEY,   \* views.py:81   "", "bad" (wrong format) or "ok"
    GEMINI_MODEL_NAME,\* views.py:83   TRUE when a Gemini model was detected
    AI_INITIALIZED,   \* views.py:174
    gen,              \* the generation call in progress / last finished
    turns,            \* session.turns: the InterviewTurn rows, in insertion order
    status,           \* session.status
    end_time,         \* TRUE when session.end_time is set
    resp,             \* the response of the last request handled
    reqs,             \* the requests in flight, when requests run concurrently
    stage,            \* the stage classifier's argument and result
    feedback,         \* session.ai_feedback and the feedback the review page shows
    setup,            \* the last interview_setup POST: the upload, the chosen
                      \* track, the extractor run on it, the session it created
    submitted         \* the last answer request as it was sent: its method,
                      \* whether its body parses, its user_response (stripped)

configVars == <<AI_PROVIDER, GEMINI_API_KEY, OPENAI_API_KEY, GEMINI_MODEL_NAME,
                AI_INITIALIZED>>

sessionVars == <<turns, status, end_time, resp, feedback>>

\* What the session handlers neither read nor write.
sideVars == <<stage, setup, submitted>>

vars == <<configVars, gen, sessionVars, reqs, sideVars>>

-----------------------------------------------------------------------------
(* Provider gateway: views.py:135-171 and 323-539                          *)

ProviderNames == {"gemini", "openai", "other"}

OpenAIKeys == {"", "bad", "ok"}

\* Texts a provider can return (after .strip()).
ProviderTexts == {"Q", "S", "ICQ", "IC"}

\* What one provider attempt can do.
\*   EMPTY         a response without text
\*   EMPTY_SAFETY  a response without text whose finish reason is SAFETY
\*   ERR           an exception naming neither quota nor safety
\*   ERR_QUOTA     an exception whose message holds "429" or "quota"
\*   ERR_SAFETY    an exception whose message holds "SAFETY"
\*   HANG          the provider never answers
FailureOutcomes == {"EMPTY", "EMPTY_SAFETY", "ERR", "ERR_QUOTA", "ERR_SAFETY"}

RespondingOutcomes == ProviderTexts \cup FailureOutcomes

AttemptOutcomes == RespondingOutcomes \cup {"HANG"}

\* for attempt in range(3)
MaxAttempts == 3

\* len(fallback_questions)
NumFallback == 4

\* initialize_ai_providers: at most the provider named by AI_PROVIDER is
\* initialised (if / elif).
initialize_ai_providers(provider, geminiKey, openaiKey, detected) ==
    IF provider = "openai" /\ openaiKey # ""
    THEN openaiKey = "ok"
    ELSE IF provider = "gemini" /\ geminiKey
         THEN detected
         ELSE FALSE

\* The keys that are set, whichever provider AI_PROVIDER names.
ConfiguredProviders(geminiKey, openaiKey) ==
    (IF geminiKey THEN {"gemini"} ELSE {}) \cup
    (IF openaiKey = "ok" THEN {"openai"} ELSE {})

Attempt(provider, outcome) == [provider |-> provider, outcome |-> outcome]

\* A finished (or blocked) provider call:
\*   text     what the function returns ("" when nothing)
\*   entry    the index of the fallback question returned, else 0
\*   raised   TRUE when it ends by raising instead of returning
\*   blocked  TRUE when it never returns
\*   log      the attempts made, in order
Returned(text, log) ==
    [text |-> text, entry |-> 0, raised |-> FALSE, blocked |-> FALSE, log |-> log]

Raised(log) ==
    [text |-> "", entry |-> 0, raised |-> TRUE, blocked |-> FALSE, log |-> log]

Blocked(log) ==
    [text |-> "", entry |-> 0, raised |-> FALSE, blocked |-> TRUE, log |-> log]

\* A retry loop that takes no response for a text.
HasText_Never(outcome) == FALSE

\* `if response.text` / `if resp.choices and resp.choices[0].message.content`
HasText(outcome) == outcome \in ProviderTexts

\* A retry loop without the quota test.
IsQuotaError_Never(outcome) == FALSE

\* The quota test of both retry loops: "429" in msg or "quota" in msg.lower()
IsQuotaError(outcome) == outcome = "ERR_QUOTA"

\* "SAFETY" in error_message.upper()
IsSafetyError(outcome) == outcome = "ERR_SAFETY"

\* _call_gemini_model, text generation: the retry loop from attempt `attempt`
\* (0-based) on.  generate_content is called without a timeout.  Every
\* exception that leaves the loop is caught at line 447 and becomes "".
RECURSIVE GeminiLoop(_, _, _)
GeminiLoop(outs, attempt, log) ==
    IF attempt >= MaxAttempts
    THEN Returned("", log)
    ELSE LET o == outs[attempt + 1]
             log2 == Append(log, Attempt("gemini", o))
         IN  CASE HasText(o) -> Returned(o, log2)
               [] o = "HANG" -> Blocked(log2)
               \* the SAFETY exception of line 423 is raised inside the
               \* try of line 420 and swallowed by its except (line 424)
               [] o \in {"EMPTY", "EMPTY_SAFETY"} -> GeminiLoop(outs, attempt + 1, log2)
               [] IsQuotaError(o) -> Returned("", log2)
               [] IsSafetyError(o) -> Returned("", log2)
               [] OTHER -> IF attempt = MaxAttempts - 1
                           THEN Returned("", log2)
                           ELSE GeminiLoop(outs, attempt + 1, log2)

\* GEMINI_MODEL_NAME is set whenever AI_INITIALIZED holds for gemini; without
\* it the function re-detects, and gives up with "" when that fails.
call_gemini_model(outs, modelName) ==
    IF ~modelName THEN Returned("", <<>>) ELSE GeminiLoop(outs, 0, <<>>)

\* _call_openai_model, text generation: each attempt carries timeout=30.0, so
\* a provider that never answers raises a timeout error.
RECURSIVE OpenAILoop(_, _, _)
OpenAILoop(outs, attempt, log) ==
    IF attempt >= MaxAttempts
    THEN Returned("", log)
    ELSE LET o == outs[attempt + 1]
             log2 == Append(log, Attempt("openai", o))
         IN  CASE HasText(o) -> Returned(o, log2)
               [] o \in {"EMPTY", "EMPTY_SAFETY"} -> OpenAILoop(outs, attempt + 1, log2)
               [] IsQuotaError(o) -> Raised(log2)
               [] OTHER -> IF attempt = MaxAttempts - 1
                           THEN Raised(log2)
                           ELSE OpenAILoop(outs, attempt + 1, log2)

call_openai_model(outs) == OpenAILoop(outs, 0, <<>>)

\* _get_fallback_response for model_type "text": random.choice picks entry
\* `pick` of fallback_questions.
get_fallback_response(pick, log) ==
    [text |-> "F", entry |-> pick, raised |-> FALSE, blocked |-> FALSE, log |-> log]

\* call_ai_model for model_type "text".
call_ai_model(provider, initialized, modelName, outs, pick) ==
    IF ~initialized
    THEN get_fallback_response(pick, <<>>)
    ELSE LET r == CASE provider = "gemini" -> call_gemini_model(outs, modelName)
                    [] provider = "openai" -> call_openai_model(outs)
                    [] OTHER -> Raised(<<>>)
         IN  IF r.raised
             THEN get_fallback_response(pick, r.log)
             ELSE r

OutcomeRuns == [1..MaxAttempts -> AttemptOutcomes]

\* No call in progress. `prev` is the fallback_questions entry the previous
\* invocation of _get_fallback_response returned (0: none yet).
NoCall == [phase |-> "idle", text |-> "", entry |-> 0, log |-> <<>>, prev |-> 0]

InitConfig ==
    /\ AI_PROVIDER \in ProviderNames
    /\ GEMINI_API_KEY \in BOOLEAN
    /\ OPENAI_API_KEY \in OpenAIKeys
    /\ GEMINI_MODEL_NAME \in BOOLEAN
    \* detect_available_gemini_model runs only in the gemini branch
    /\ GEMINI_MODEL_NAME => (AI_PROVIDER = "gemini" /\ GEMINI_API_KEY)
    /\ AI_INITIALIZED = initialize_ai_providers(AI_PROVIDER, GEMINI_API_KEY,
                                                 OPENAI_API_KEY, GEMINI_MODEL_NAME)

-----------------------------------------------------------------------------
(* Texts and turns                                                         *)

\* The texts call_ai_model can hand to a handler when every provider attempt
\* responds, per configuration.
TextsOf(provider, initialized, modelName) ==
    { call_ai_model(provider, initialized, modelName, outs, pick).text :
         outs \in [1..MaxAttempts -> RespondingOutcomes], pick \in 1..NumFallback }

GeminiTexts == TextsOf("gemini", TRUE, TRUE)

OpenAITexts == TextsOf("openai", TRUE, FALSE)

UninitializedTexts == TextsOf("gemini", FALSE, FALSE)

\* AI_INITIALIZED holds only for gemini with a detected model, or for openai.
GenerationResults(provider, initialized) ==
    IF ~initialized THEN UninitializedTexts
    ELSE IF provider = "gemini" THEN GeminiTexts
    ELSE OpenAITexts

\* user_answer of a turn nobody answered yet (NULL).
None == "None"

\* The answer texts a candidate submits (after .strip()); "" is no answer.
Answers == {"a1", "a2"}

\* ai_response_text.startswith("INTERVIEW_COMPLETE")
StartsWithComplete(text) == text \in {"ICQ", "IC"}

\* ai_response_text.replace("INTERVIEW_COMPLETE", "").strip()
RemoveMarker(text) ==
    CASE text = "ICQ" -> "QC"
      [] text = "IC" -> ""
      [] OTHER -> text

\* not text or len(text.strip()) < 50
TooShortToClose(text) == text \in {"", "S"}

\* current_turn_count >= 12
MaxQuestions == 12

\* completed_turns >= 3
AutoCompleteAnswers == 3

\* ai_interaction_api, lines 1685-1689.
IsComplete(text, count, late) ==
    StartsWithComplete(text) \/ count >= MaxQuestions \/ late

\* ai_interaction_api, lines 1690-1694: the text recorded as the question.
QuestionText(text, count, late) ==
    IF IsComplete(text, count, late)
    THEN LET t == IF StartsWithComplete(text) THEN RemoveMarker(text) ELSE text
         IN  IF TooShortToClose(t) THEN "C" ELSE t
    ELSE text

NewTurn(n, q) == [turn_number |-> n, ai_question |-> q, user_answer |-> None]

\* InterviewTurn.objects.create(session=..., turn_number=n, ai_question=q):
\* the turn store's createTurn, which inserts one more row.
createTurn(ts, n, q) == Append(ts, NewTurn(n, q))

\* A handler that numbers the new turn one too high.
NextTurnNumber_Skip(count) == count + 2

\* turn_number = current_turn_count + 1
NextTurnNumber(count) == count + 1

MaxOf(S) == CHOOSE x \in S : \A y \in S : y <= x

\* session.turns.order_by('-turn_number').first(): the rows that can come
\* first (one row, unless two rows carry the highest number).
LastTurnIndexes(ts) ==
    { i \in 1..Len(ts) : ts[i].turn_number = MaxOf({ ts[j].turn_number : j \in 1..Len(ts) }) }

\* An attach that overwrites whatever answer the turn holds.
AttachAnswer_Overwrite(ts, i, answer) == [ts EXCEPT ![i].user_answer = answer]

\* lines 1625-1627: "Only update if empty".
AttachAnswer(ts, i, answer) ==
    IF ts[i].user_answer \in {None, ""}
    THEN [ts EXCEPT ![i].user_answer = answer]
    ELSE ts

\* turns.filter(user_answer__isnull=False).count()
CompletedTurns(ts) == Cardinality({ i \in 1..Len(ts) : ts[i].user_answer # None })

\* A dict without keys.
EmptyDict == [k \in {} |-> 0]

\* ai_interaction_api, lines 1670-1682: the generation steps one answer
\* request runs for its question, a single call of call_ai_model.
GenerationSteps == <<"primary">>

\* A JSON response: ai_response_text, current_question (turn number) and
\* interview_complete of a success; ai_feedback is the dict of the context
\* of a rendered review page; steps are the generation steps the request ran;
\* debug_info holds the keys of the response's debug_info that tell of the
\* server's inside ("exception", "ai_provider", "ai_initialized",
\* "text_generated").
Response(op, code, text, question, complete) ==
    [op |-> op, code |-> code, error |-> "", text |-> text, question |-> question,
     complete |-> complete, ai_feedback |-> EmptyDict, steps |-> <<>>,
     debug_info |-> {}]

\* An error response, a redirect or a rendered page.  `error` names the
\* message: "method", "unavailable", "json", "empty", "generation", "save".
Plain(op, code, error) ==
    [op |-> op, code |-> code, error |-> error, text |-> "", question |-> 0,
     complete |-> FALSE, ai_feedback |-> EmptyDict, steps |-> <<>>,
     debug_info |-> {}]

NoResponse == Plain("none", 0, "")

Statuses == {"STARTED", "COMPLETED", "REVIEW_PENDING", "REVIEWED"}

-----------------------------------------------------------------------------
(* The feedback of a session: the analysis made when the interview closes  *)
(* (analyze_interview_performance), stored as JSON text in the session,    *)
(* and what review_interview makes of it for the page.                     *)

\* A text as the JSON reader sees it:
\*   ""         no text
\*   "text"     a text without braces (a sentence, a fallback question)
\*   "badjson"  braces around what json.loads refuses
\*   "json"     a JSON object, `dict` its content
JsonText(kind, dict) == [kind |-> kind, dict |-> dict]

NoText == JsonText("", EmptyDict)

\* No analysis made, nothing stored.
\*   raw     what the provider returned to the last analysis
\*   stored  session.ai_feedback, the JSON text stored
NoFeedback == [raw |-> NoText, stored |-> NoText]

ScoreKeys == {"overall_score", "communication_score"}

ListKeys == {"strengths", "areas_for_improvement", "recommendations"}

TextKeys == {"technical_assessment", "confidence_level", "encouragement_note"}

\* required_keys
FeedbackKeys == ScoreKeys \cup ListKeys \cup TextKeys

\* JSON values.  A string carries `inner`, what json.loads makes of its
\* content: "text" (not JSON), "int", "list" or "null".
JInt(n) == [type |-> "int", n |-> n, inner |-> ""]

JStr(inner) == [type |-> "str", n |-> 0, inner |-> inner]

\* A list of n elements.
JList(n) == [type |-> "list", n |-> n, inner |-> ""]

JNull == [type |-> "null", n |-> 0, inner |-> ""]

\* The number a string of digits holds.
InnerInt == 42

\* The length of the list a string holding a JSON list holds.
InnerLen == 2

\* json.loads(v) of a string value v; "fail" stands for the exception.
json_loads_value(v) ==
    CASE v.inner = "int" -> JInt(InnerInt)
      [] v.inner = "list" -> JList(InnerLen)
      [] v.inner = "null" -> JNull
      [] OTHER -> [type |-> "fail", n |-> 0, inner |-> ""]

\* What a provider reports as a score.
ScoreValues == {JInt(-40), JInt(0), JInt(85), JInt(100), JInt(999), JStr("int")}

\* What a provider reports in a list field.
ListValues ==
    {JList(3), JList(0), JStr("text"), JStr("int"), JStr("list"), JStr("null"),
     JInt(5), JNull}

\* The keys a provider's JSON object lacks: at most this many, or all.
MaxMissingKeys == 1

MissingKeySets ==
    { m \in SUBSET FeedbackKeys : Cardinality(m) \in 1..MaxMissingKeys } \cup {FeedbackKeys}

\* A provider's JSON object with every key: the two scores and the list
\* fields (all three alike) take every reported value, the text fields hold
\* text.
CompleteDict(o, c, l) ==
    [k \in FeedbackKeys |-> CASE k = "overall_score" -> o
                              [] k = "communication_score" -> c
                              [] k \in ListKeys -> l
                              [] OTHER -> JStr("text")]

\* The JSON objects a provider returns: complete ones, and one object for
\* each set of keys that can be missing.
ProviderDicts ==
    { CompleteDict(o, c, l) : o \in ScoreValues, c \in ScoreValues, l \in ListValues }
    \cup
    { [k \in FeedbackKeys \ m |-> CompleteDict(JInt(85), JInt(85), JList(3))[k]] :
        m \in MissingKeySets }

\* What call_ai_model hands analyze_interview_performance.
AnalysisOutputs ==
    {NoText, JsonText("text", EmptyDict), JsonText("badjson", EmptyDict)}
    \cup { JsonText("json", d) : d \in ProviderDicts }

\* The fallback of `except json.JSONDecodeError`, lines 835-859.
DecodeErrorFeedback ==
    [k \in FeedbackKeys |-> CASE k \in ScoreKeys -> JInt(70)
                              [] k = "recommendations" -> JList(5)
                              [] k \in ListKeys -> JList(3)
                              [] OTHER -> JStr("text")]

\* The fallback of `except Exception`, lines 861-886.
ErrorFeedback ==
    [k \in FeedbackKeys |-> CASE k \in ScoreKeys -> JInt(70)
                              [] k = "recommendations" -> JList(4)
                              [] k \in ListKeys -> JList(3)
                              [] OTHER -> JStr("text")]

\* The emergency fallback of review_interview, lines 1998-2024, used when no
\* dict came out of the parsing.
EmergencyFeedback ==
    [k \in FeedbackKeys |-> CASE k \in ScoreKeys -> JInt(70)
                              [] k = "recommendations" -> JList(5)
                              [] k \in ListKeys -> JList(3)
                              [] OTHER -> JStr("text")]

\* json.loads(text) where a dict is expected, else the emergency fallback.
ParsedOrEmergency(text) ==
    IF text.kind = "json" /\ text.dict # EmptyDict THEN text.dict ELSE EmergencyFeedback

\* A validation that lets an object through whatever keys it has.
HasRequiredKeys_Lax(d) == TRUE

\* lines 811-819: every required key is in the object.
HasRequiredKeys(d) == \A k \in FeedbackKeys : k \in DOMAIN d

\* analyze_interview_performance: the JSON text it returns for the provider
\* text `raw`.
analyze_interview_performance(raw) ==
    CASE raw.kind = "" -> JsonText("json", ErrorFeedback)
      [] raw.kind = "text" -> JsonText("json", ErrorFeedback)
      [] raw.kind = "badjson" -> JsonText("json", DecodeErrorFeedback)
      [] OTHER -> IF HasRequiredKeys(raw.dict)
                  THEN JsonText("json", raw.dict)
                  ELSE JsonText("json", ErrorFeedback)

\* review_interview, lines 2026-2036: .get(key, default) for every key.
KeyDefault(k) ==
    CASE k \in ScoreKeys -> JInt(70)
      [] k \in ListKeys -> JList(1)
      [] OTHER -> JStr("text")

WithKeyDefaults(d) ==
    [k \in FeedbackKeys |-> IF k \in DOMAIN d THEN d[k] ELSE KeyDefault(k)]

\* review_interview, lines 2038-2046: a string is replaced by what json.loads
\* makes of it, or wrapped when json.loads refuses it; any other non-list is
\* wrapped.
CoerceListValue(v) ==
    IF v.type = "str"
    THEN IF json_loads_value(v).type = "fail" THEN JList(1) ELSE json_loads_value(v)
    ELSE IF v.type # "list" THEN JList(1) ELSE v

\* review_interview, lines 2026-2046: the dict handed to the page.
CoerceFeedback(d) ==
    [k \in FeedbackKeys |->
        IF k \in ListKeys
        THEN CoerceListValue(WithKeyDefaults(d)[k])
        ELSE WithKeyDefaults(d)[k]]

\* ai_interaction_api, lines 1769-1776, when is_complete: the analysis is made
\* and stored in the session.
StoreAnalysis(fb, analysis) ==
    [fb EXCEPT !.raw = analysis, !.stored = analyze_interview_performance(analysis)]

\* json.loads(feedback_source) gave a dict that is not empty.
HasStoredFeedback(fb) == fb.stored.kind = "json" /\ fb.stored.dict # EmptyDict

\* review_interview, lines 1927-1996: the stored text is parsed, or the
\* analysis is made now and stored.
ReviewedFeedback(fb, analysis) ==
    IF HasStoredFeedback(fb)
    THEN fb
    ELSE [raw |-> analysis, stored |-> analyze_interview_performance(analysis)]

\* review_interview, lines 1998-2046: the dict handed to the page.
ShownFeedback(fb, analysis) ==
    CoerceFeedback(ParsedOrEmergency(ReviewedFeedback(fb, analysis).stored))

-----------------------------------------------------------------------------
(* One session, its requests handled one at a time                         *)

\* The turns one run of the model records before it stops adding turns.
MaxTurns == 2

\* A start that writes a first turn whatever the session holds.
StartCreates_Always(count) == TRUE

\* main_interview, line 1409: if turn_count == 0
StartCreates(count) == count = 0

\* InterviewTurn.objects.create(session, turn_number=1, ai_question=text)
\* main_interview, POST ("Start Interview"), lines 1396-1441.
StartPost(text, createOk) ==
    LET count == Len(turns)
        restarted == status # "STARTED"
    IN  /\ status' = "STARTED"
        /\ end_time' = end_time
        /\ feedback' = feedback
        /\ IF StartCreates(count)
           THEN IF createOk
                THEN /\ turns' = createTurn(turns, 1, text)
                     /\ resp' = Response("start", 200, text, 1, FALSE)
                ELSE /\ turns' = turns
                     /\ resp' = Plain("start", 500, "save")
           ELSE \E i \in LastTurnIndexes(turns) :
                     /\ turns' = turns
                     /\ resp' = Response("start", 200, turns[i].ai_question,
                                         turns[i].turn_number, FALSE)
        /\ UNCHANGED <<configVars, gen, reqs, sideVars>>

\* main_interview, GET (page load), lines 1443-1483.
PageLoad ==
    /\ status' = IF status \in {"COMPLETED", "REVIEWED"} THEN status ELSE "STARTED"
    /\ resp' = Plain("page", IF status \in {"COMPLETED", "REVIEWED"} THEN 302 ELSE 200, "")
    /\ UNCHANGED <<turns, end_time, feedback, configVars, gen, reqs, sideVars>>

\* A handler that turns away only a body that does not parse.
RejectsPayload_JsonOnly(bodyOk, answer) == ~bodyOk

\* ai_interaction_api, lines 1604-1614: json.JSONDecodeError, or
\* `if not user_response_text`.
RejectsPayload(bodyOk, answer) == ~bodyOk \/ answer = ""

\* ai_interaction_api, lines 1585-1815.
\*   method    the HTTP method          bodyOk    the body parses as JSON
\*   answer    user_response, stripped  late      interview_duration > 25
\*   saveOk    last_turn.save succeeds (its failure is logged and ignored)
\*   text      what call_ai_model returns
\*   createOk  InterviewTurn.objects.create succeeds
\*   analysis  what call_ai_model returns to the performance analysis
\* The text-to-speech calls write no field that is modelled here.
AnswerRequest(method, bodyOk, answer, late, saveOk, text, createOk, analysis) ==
    LET count == Len(turns) IN
    IF method # "POST"
    THEN /\ resp' = Plain("answer", 405, "method")
         /\ UNCHANGED <<turns, status, end_time, feedback>>
    ELSE IF ~AI_INITIALIZED
    THEN /\ resp' = [Plain("answer", 503, "unavailable") EXCEPT
                        !.debug_info = {"ai_provider", "ai_initialized"}]
         /\ UNCHANGED <<turns, status, end_time, feedback>>
    ELSE IF RejectsPayload(bodyOk, answer)
    THEN /\ resp' = Plain("answer", 400, IF bodyOk THEN "empty" ELSE "json")
         /\ UNCHANGED <<turns, status, end_time, feedback>>
    ELSE \E i \in (IF count > 0 THEN LastTurnIndexes(turns) ELSE {0}) :
         LET attached == IF count > 0 /\ saveOk
                         THEN AttachAnswer(turns, i, answer)
                         ELSE turns
             complete == IsComplete(text, count, late)
             question == QuestionText(text, count, late)
         IN  IF text = ""
             THEN /\ turns' = attached
                  /\ resp' = [Plain("answer", 500, "generation") EXCEPT
                                 !.steps = GenerationSteps,
                                 !.debug_info = {"text_generated"}]
                  /\ UNCHANGED <<status, end_time, feedback>>
             ELSE IF ~createOk
             THEN /\ turns' = attached
                  /\ resp' = [Plain("answer", 500, "save") EXCEPT
                                 !.steps = GenerationSteps,
                                 !.debug_info = {"exception"}]
                  /\ UNCHANGED <<status, end_time, feedback>>
             ELSE /\ turns' = createTurn(attached, NextTurnNumber(count), question)
                  /\ status' = IF complete THEN "COMPLETED" ELSE status
                  /\ end_time' = (complete \/ end_time)
                  /\ feedback' = IF complete
                                 THEN StoreAnalysis(feedback, analysis)
                                 ELSE feedback
                  /\ resp' = [Response("answer", 200, question, count + 1, complete)
                                 EXCEPT !.steps = GenerationSteps,
                                        !.debug_info = {"ai_initialized"}]

\* review_interview, lines 1906-2119: the auto-completion, then the feedback
\* for the page; `analysis` is what call_ai_model returns when the analysis
\* has to be made now.
ReviewRequest(analysis) ==
    /\ IF Len(turns) = 0
       THEN /\ resp' = Plain("review", 302, "")
            /\ UNCHANGED <<status, end_time, feedback>>
       ELSE /\ IF status = "STARTED" /\ CompletedTurns(turns) >= AutoCompleteAnswers
               THEN status' = "COMPLETED" /\ end_time' = TRUE
               ELSE UNCHANGED <<status, end_time>>
            /\ feedback' = ReviewedFeedback(feedback, analysis)
            /\ resp' = [Plain("review", 200, "") EXCEPT
                           !.ai_feedback = ShownFeedback(feedback, analysis)]
    /\ UNCHANGED <<turns, configVars, gen, reqs, sideVars>>

\* tutor_review_interview_detail, POST, tutor/views.py lines 550-573.
TutorUpdate(scoreOk, next_status) ==
    /\ IF scoreOk /\ next_status \in {"REVIEW_PENDING", "REVIEWED", "COMPLETED"}
       THEN status' = next_status
       ELSE status' = status
    /\ resp' = Plain("tutor", 302, "")
    /\ UNCHANGED <<turns, end_time, feedback, configVars, gen, reqs, sideVars>>

\* The requests the answer endpoint receives: one of each kind it rejects
\* before reading the session, and every accepted combination (those that
\* differ only in an input the handler does not come to read are listed once:
\* without a text nothing is created and the duration decides nothing, and
\* when the create fails the duration decides nothing).
AnswerInputs ==
    { [method |-> "GET", bodyOk |-> TRUE, answer |-> "a1", late |-> FALSE,
       saveOk |-> TRUE, text |-> "", createOk |-> TRUE],
      [method |-> "POST", bodyOk |-> FALSE, answer |-> "", late |-> FALSE,
       saveOk |-> TRUE, text |-> "", createOk |-> TRUE],
      [method |-> "POST", bodyOk |-> TRUE, answer |-> "", late |-> FALSE,
       saveOk |-> TRUE, text |-> "", createOk |-> TRUE] }
    \cup
    { in \in [method : {"POST"}, bodyOk : {TRUE}, answer : Answers,
               late : BOOLEAN, saveOk : BOOLEAN,
               text : ProviderTexts \cup {"", "F"}, createOk : BOOLEAN] :
        /\ in.text = "" => (in.createOk /\ ~in.late)
        /\ ~in.createOk => ~in.late }

\* A handler call creates a turn only while the run has room for it.
Room(text, createOk) == (text # "" /\ createOk) => Len(turns) < MaxTurns

\* call_ai_model is called only when the session has no turn yet.
Start ==
    IF Len(turns) = 0
    THEN \E text \in GenerationResults(AI_PROVIDER, AI_INITIALIZED),
            createOk \in BOOLEAN :
             /\ createOk => Len(turns) < MaxTurns
             /\ StartPost(text, createOk)
    ELSE StartPost("", TRUE)

Answer ==
    \E in \in AnswerInputs :
        /\ in.text \in GenerationResults(AI_PROVIDER, AI_INITIALIZED)
        /\ Room(in.text, in.createOk)
        /\ AnswerRequest(in.method, in.bodyOk, in.answer, in.late, in.saveOk,
                         in.text, in.createOk, NoText)
        /\ UNCHANGED <<configVars, gen, reqs, sideVars>>

\* The forms a tutor posts: each status of the form with a valid score, and
\* one with a score out of range.
TutorInputs ==
    [scoreOk : {TRUE}, next_status : {"REVIEW_PENDING", "REVIEWED", "COMPLETED", ""}]
    \cup {[scoreOk |-> FALSE, next_status |-> "COMPLETED"]}

\* In the runs that are about turns and status the analysis finds the
\* provider silent.
Review == ReviewRequest(NoText)

Tutor ==
    \E in \in TutorInputs : TutorUpdate(in.scoreOk, in.next_status)

\* The two requests that can be in flight at once.
Requests == {1, 2}

\* A request slot: where the handler stands, and the locals it holds.
Idle == [pc |-> "idle", kind |-> "", count |-> 0, last |-> 0, answer |-> ""]

NoRequests == [r \in Requests |-> Idle]

NoStage == [question_number |-> 0, track |-> "", result |-> ""]

\* No file in request.FILES.
NoUpload == [present |-> FALSE, ext |-> "", big |-> FALSE]

\* No setup form posted yet. `extractor` names the extractor parse_resume_file
\* ran on the upload ("" when it was not invoked); `stored_track` is the track
\* the created session row holds ("" when the handler wrote none).
NoSetup == [upload |-> NoUpload, track |-> "", extractor |-> "",
            created |-> FALSE, stored_track |-> ""]

\* No answer request sent yet.
NoSubmission == [method |-> "", bodyOk |-> FALSE, answer |-> ""]

\* Every variable of sideVars at rest, but those named in `busy`.
SideIdle(busy) ==
    /\ IF "stage" \in busy THEN TRUE ELSE stage = NoStage
    /\ IF "setup" \in busy THEN TRUE ELSE setup = NoSetup
    /\ IF "submitted" \in busy THEN TRUE ELSE submitted = NoSubmission

\* interview_setup, lines 1351-1371: the session as created.
InitSession ==
    /\ turns = <<>>
    /\ status = "STARTED"
    /\ end_time = FALSE
    /\ resp = NoResponse
    /\ feedback = NoFeedback

\* The configurations the handlers tell apart: one provider's key at a time.
InitSessionConfig ==
    /\ InitConfig
    /\ AI_PROVIDER = "gemini" => OPENAI_API_KEY = ""
    /\ AI_PROVIDER = "openai" => (~GEMINI_API_KEY /\ OPENAI_API_KEY # "bad")
    /\ AI_PROVIDER # "other"

Init ==
    /\ InitSessionConfig
    /\ gen = NoCall
    /\ InitSession
    /\ reqs = NoRequests
    /\ SideIdle({})

Next == Start \/ PageLoad \/ Answer \/ Review \/ Tutor

Spec == Init /\ [][Next]_vars

\* The candidate's own requests: no tutor touches the session.
NextStudent == Start \/ PageLoad \/ Answer \/ Review

SpecStudent == Init /\ [][NextStudent]_vars

\* C1: requests handled one at a time leave the turns numbered 1..n in the
\* order they were written: no gap, no duplicate.
C1_TurnNumbersContiguous ==
    \A i \in 1..Len(turns) : turns[i].turn_number = i

\* A start request wrote turn 1, an answer request answered it and wrote
\* turn 2.
C1_Witness ==
    /\ Len(turns) = 2
    /\ turns[1].user_answer \in Answers
    /\ resp.op = "answer" /\ resp.code = 200 /\ resp.question = 2

\* C3: a completed session never returns to in-progress, and no answer
\* request completes it a second time.
C3_CompletedOnce ==
    [][status = "COMPLETED" =>
          /\ status' # "STARTED"
          /\ ~(resp'.op = "answer" /\ resp'.complete)]_vars

\* C4: an answer request with a non-empty answer on an in-progress session,
\* whatever the provider does, ends with a new turn whose question is not
\* empty (the turn store itself working).
C4_GenerationFailureAbsorbed ==
    [][(/\ status = "STARTED"
        /\ resp'.op = "answer"
        /\ resp'.error \notin {"method", "json", "empty", "save"})
       => /\ resp'.code = 200
          /\ Len(turns') = Len(turns) + 1
          /\ turns'[Len(turns')].ai_question # ""]_vars

FewerThanNineWords(text) == text \in {"", "S", "IC"}

\* The generated questions among the (at most) four turns before turn i.
LastQuestions(ts, i) ==
    { ts[j].ai_question : j \in { k \in 1..(i - 1) : k >= i - 4 } } \cap ProviderTexts

\* The Quality Gate's repetition test: the same text again has similarity 1
\* and token overlap 1.
IsRepetitive(text, ts, i) == text \in LastQuestions(ts, i)

\* C14: no turn records a generated question that one of the four turns
\* before it already holds.
C14_NoRepeatedQuestion ==
    \A i \in 1..Len(turns) : ~IsRepetitive(turns[i].ai_question, turns, i)

\* C15: no answer request records a generated question of fewer than nine
\* words.
C15_NoShortQuestion ==
    [][(resp'.op = "answer" /\ resp'.code = 200 /\ ~resp'.complete)
          => ~FewerThanNineWords(turns'[Len(turns')].ai_question)]_vars

\* The escalation ladder of the question synthesizer.
Ladder == <<"primary", "repair", "follow-up", "fallback-bank">>

\* C16: an answer request runs the steps of the ladder in order; when the
\* output of its last step fails the Quality Gate (no text, fewer than nine
\* words, a repetition) it goes on to the next step, so that it ends with a
\* recorded question that passes or with the fallback bank.
C16_EscalationLadder ==
    [][(/\ resp'.op = "answer"
        /\ resp'.steps # <<>>
        /\ resp'.error # "save"
        /\ ~resp'.complete)
       => /\ \A n \in 1..Len(resp'.steps) : resp'.steps[n] = Ladder[n]
          /\ resp'.error # "generation"
          /\ \/ resp'.steps[Len(resp'.steps)] = "fallback-bank"
             \/ /\ ~FewerThanNineWords(resp'.text)
                /\ ~IsRepetitive(resp'.text, turns', Len(turns'))]_vars

-----------------------------------------------------------------------------
(* One session, two requests in flight: each handler is a sequence of      *)
(* database operations, and the operations of the two interleave.  The     *)
(* handlers take no lock and open no transaction.                          *)

\* A request starts only while the session holds fewer turns than this.
MaxConcurrentTurns == 2

\* main_interview POST, lines 1400-1405, and ai_interaction_api, line 1616:
\* the handler reads the session and counts its turns.
ConcBegin(r) ==
    /\ reqs[r].pc = "idle"
    /\ Len(turns) < MaxConcurrentTurns
    /\ \E kind \in {"start", "answer"}, answer \in Answers :
          LET count == Len(turns) IN
          /\ status' = IF kind = "start" THEN "STARTED" ELSE status
          /\ reqs' = [reqs EXCEPT ![r] =
                 [pc |-> CASE kind = "start" /\ count > 0 -> "idle"
                           [] kind = "answer" /\ count > 0 -> "fetch"
                           [] OTHER -> "create",
                  kind |-> kind, count |-> count, last |-> 0,
                  answer |-> IF kind = "answer" THEN answer ELSE ""]]
    /\ UNCHANGED <<turns, end_time, resp, feedback, configVars, gen, sideVars>>

\* ai_interaction_api, lines 1624-1625: fetch the last turn, look at its answer.
ConcFetch(r) ==
    /\ reqs[r].pc = "fetch"
    /\ \E i \in LastTurnIndexes(turns) :
          reqs' = [reqs EXCEPT ![r].last = i,
                               ![r].pc = IF turns[i].user_answer \in {None, ""}
                                         THEN "save" ELSE "create"]
    /\ UNCHANGED <<sessionVars, configVars, gen, sideVars>>

\* ai_interaction_api, lines 1626-1627: write the answer to the fetched row.
ConcSave(r) ==
    /\ reqs[r].pc = "save"
    /\ turns' = [turns EXCEPT ![reqs[r].last].user_answer = reqs[r].answer]
    /\ reqs' = [reqs EXCEPT ![r].pc = "create"]
    /\ UNCHANGED <<status, end_time, resp, feedback, configVars, gen, sideVars>>

\* main_interview POST, lines 1410-1422, and ai_interaction_api, lines
\* 1671-1763: generate the text, then insert the turn numbered from the count
\* read at the beginning.
ConcCreate(r) ==
    /\ reqs[r].pc = "create"
    /\ \E text \in GenerationResults(AI_PROVIDER, AI_INITIALIZED),
          late \in BOOLEAN, createOk \in BOOLEAN :
          LET count == reqs[r].count IN
          IF reqs[r].kind = "start"
          THEN /\ turns' = IF createOk THEN createTurn(turns, 1, text) ELSE turns
               /\ reqs' = [reqs EXCEPT ![r] = Idle]
          ELSE IF text = "" \/ ~createOk
          THEN /\ turns' = turns
               /\ reqs' = [reqs EXCEPT ![r] = Idle]
          ELSE /\ turns' = createTurn(turns, NextTurnNumber(count),
                                      QuestionText(text, count, late))
               /\ reqs' = [reqs EXCEPT ![r] =
                              IF IsComplete(text, count, late)
                              THEN [Idle EXCEPT !.pc = "finish"]
                              ELSE Idle]
    /\ UNCHANGED <<status, end_time, resp, feedback, configVars, gen, sideVars>>

\* ai_interaction_api, lines 1766-1782 (the provider silent to the analysis).
ConcFinish(r) ==
    /\ reqs[r].pc = "finish"
    /\ status' = "COMPLETED"
    /\ end_time' = TRUE
    /\ feedback' = StoreAnalysis(feedback, NoText)
    /\ reqs' = [reqs EXCEPT ![r] = Idle]
    /\ UNCHANGED <<turns, resp, configVars, gen, sideVars>>

\* The answer endpoint serves requests only when AI_INITIALIZED.
InitConc == Init /\ AI_INITIALIZED

NextConc ==
    \E r \in Requests :
        ConcBegin(r) \/ ConcFetch(r) \/ ConcSave(r) \/ ConcCreate(r) \/ ConcFinish(r)

SpecConc == InitConc /\ [][NextConc]_vars

-----------------------------------------------------------------------------
(* A scripted interview: a start request, then accepted answer requests    *)
(* within 25 minutes until the endpoint reports the interview complete     *)

\* What call_ai_model hands the handlers during the script: a question, a
\* closing message behind the marker, the marker alone, or nothing.
ScriptTexts == {"Q", "ICQ", "IC", ""}

\* The candidate of the script gives the same answer every time.
ScriptAnswers == {"a1"}

ScriptStart ==
    /\ Len(turns) = 0
    /\ \E text \in ScriptTexts \cap
                    GenerationResults(AI_PROVIDER, AI_INITIALIZED) :
          StartPost(text, TRUE)

ScriptAnswer ==
    /\ Len(turns) > 0
    /\ status = "STARTED"
    /\ \E answer \in ScriptAnswers,
          text \in ScriptTexts \cap
                    GenerationResults(AI_PROVIDER, AI_INITIALIZED) :
          AnswerRequest("POST", TRUE, answer, FALSE, TRUE, text, TRUE, NoText)
    /\ UNCHANGED <<configVars, gen, reqs, sideVars>>

\* The script runs against an initialised provider.
InitScript == Init /\ AI_INITIALIZED

NextScript == ScriptStart \/ ScriptAnswer

SpecScript == InitScript /\ [][NextScript]_vars

\* No turn of the script holds a closing message the provider announced with
\* the marker.
NoMarkerSeen ==
    \A i \in 1..Len(turns) : i > 1 => turns[i].ai_question \notin {"QC", "C"}

\* C5: the script's session is completed when its 9th turn is written (a
\* start and 8 answers, the 9th turn closing), not earlier, not later.
C5_CompletedAtNinthTurn ==
    NoMarkerSeen => (status = "COMPLETED" <=> Len(turns) = 9)

-----------------------------------------------------------------------------
(* The stage classifier                                                    *)

\* get_interview_stage(question_number): the track is no argument of it.
get_interview_stage(question_number) ==
    IF question_number <= 2 THEN "introduction"
    ELSE IF question_number <= 5 THEN "technical"
    ELSE IF question_number <= 8 THEN "behavioral"
    ELSE IF question_number <= 10 THEN "cultural_fit"
    ELSE "closing"

\* The largest turn number classified.
MaxQuestionNumber == 30

\* InterviewSetupForm.interview_track
Tracks == {"technical", "hr"}

InitStage ==
    /\ InitSessionConfig
    /\ gen = NoCall
    /\ InitSession
    /\ reqs = NoRequests
    /\ SideIdle({"stage"})
    /\ stage \in [question_number : 1..MaxQuestionNumber, track : Tracks, result : {""}]

\* The stage of turn question_number of a session of the given track.
Classify ==
    /\ stage.result = ""
    /\ stage' = [stage EXCEPT !.result = get_interview_stage(stage.question_number)]
    /\ UNCHANGED <<configVars, gen, sessionVars, reqs, setup, submitted>>

SpecStage == InitStage /\ [][Classify]_vars

\* C7: the stage of turn n is introduction for n <= 1; then, by track,
\* technical-core / hr-core for 2-3, technical-depth / behavioral for 4-5,
\* problem-solving / situational-hr for 6-7, and final-evaluation beyond.
C7_StageTable ==
    stage.result # "" =>
        LET n == stage.question_number
            technical == stage.track = "technical"
        IN  stage.result =
              CASE n <= 1 -> "introduction"
                [] n \in 2..3 -> IF technical THEN "technical-core" ELSE "hr-core"
                [] n \in 4..5 -> IF technical THEN "technical-depth" ELSE "behavioral"
                [] n \in 6..7 -> IF technical THEN "problem-solving" ELSE "situational-hr"
                [] OTHER -> "final-evaluation"

-----------------------------------------------------------------------------
(* One generation call under every configuration                           *)

InitGen ==
    /\ InitConfig
    /\ gen = NoCall
    /\ InitSession
    /\ reqs = NoRequests
    /\ SideIdle({})

\* A caller invokes call_ai_model(prompt); the providers behave as `outs`.
GenCall ==
    /\ gen.phase = "idle"
    /\ \E outs \in OutcomeRuns, pick \in 1..NumFallback :
          LET r == call_ai_model(AI_PROVIDER, AI_INITIALIZED, GEMINI_MODEL_NAME, outs, pick)
          IN  gen' = [phase |-> IF r.blocked THEN "blocked" ELSE "returned",
                      text |-> r.text, entry |-> r.entry, log |-> r.log,
                      prev |-> gen.prev]
    /\ UNCHANGED <<configVars, sessionVars, reqs, sideVars>>

\* The caller takes the result; the next call can start.
GenReturn ==
    /\ gen.phase = "returned"
    /\ gen' = [NoCall EXCEPT !.prev = IF gen.entry # 0 THEN gen.entry ELSE gen.prev]
    /\ UNCHANGED <<configVars, sessionVars, reqs, sideVars>>

NextGen == GenCall \/ GenReturn

SpecGen == InitGen /\ [][NextGen]_vars

Attempted(p) == \E i \in 1..Len(gen.log) : gen.log[i].provider = p

\* The call gave its caller no provider text: "" or a canned fallback question.
GenFailed == gen.phase = "returned" /\ gen.text \notin ProviderTexts

\* C8: with both providers configured, a call that attempted the preferred
\* provider and reports failure has also attempted the other provider.
C8_OtherProviderTried ==
    (/\ GenFailed
     /\ ConfiguredProviders(GEMINI_API_KEY, OPENAI_API_KEY) = {"gemini", "openai"}
     /\ Attempted(AI_PROVIDER))
    => \A p \in ConfiguredProviders(GEMINI_API_KEY, OPENAI_API_KEY) : Attempted(p)

\* C9: within one call, no attempt is made against a provider after an
\* attempt against it failed with a quota / rate-limit error.
C9_NoRetryAfterQuota ==
    \A i, j \in 1..Len(gen.log) :
        (i < j /\ gen.log[i].outcome = "ERR_QUOTA")
        => gen.log[j].provider # gen.log[i].provider

\* A call whose second attempt hit the quota error, after a first attempt
\* that was retried, has returned.
C9_Witness ==
    /\ gen.phase = "returned"
    /\ Len(gen.log) = 2
    /\ gen.log[1].outcome = "ERR"
    /\ gen.log[2].outcome = "ERR_QUOTA"

\* C10: a generation call is never stuck: it has returned, or it can still
\* take a step (a provider that never answers is timed out).
C10_CallNeverStuck == gen.phase = "returned" \/ ENABLED NextGen

\* C17: two consecutive invocations of the fallback bank never return the
\* same entry (the bank holds more than one entry).
C17_FallbackRotates ==
    (NumFallback > 1 /\ gen.entry # 0 /\ gen.prev # 0) => gen.entry # gen.prev

-----------------------------------------------------------------------------
(* One interview under every analysis the provider can return: a start,    *)
(* answers that end the interview or not, and reviews.                     *)

\* The first question, as the provider gives it.
FeedbackStart ==
    /\ Len(turns) = 0
    /\ AI_INITIALIZED
    /\ StartPost("Q", TRUE)

\* An answer request that goes on with a question.
FeedbackAnswer ==
    /\ Len(turns) \in 1..(MaxTurns - 1)
    /\ status = "STARTED"
    /\ AnswerRequest("POST", TRUE, "a1", FALSE, TRUE, "Q", TRUE, NoText)
    /\ UNCHANGED <<configVars, gen, reqs, sideVars>>

\* An answer request that ends the interview: the provider's marker, or the
\* 25 minutes.
FeedbackClose ==
    /\ Len(turns) \in 1..(MaxTurns - 1)
    /\ status = "STARTED"
    /\ \E in \in {<<"IC", FALSE>>, <<"Q", TRUE>>}, analysis \in AnalysisOutputs :
          AnswerRequest("POST", TRUE, "a1", in[2], TRUE, in[1], TRUE, analysis)
    /\ UNCHANGED <<configVars, gen, reqs, sideVars>>

\* The review page, before or after the interview ended; the analysis is
\* made only when no feedback is stored.
FeedbackReview ==
    IF HasStoredFeedback(feedback)
    THEN ReviewRequest(NoText)
    ELSE \E analysis \in AnalysisOutputs : ReviewRequest(analysis)

NextFeedback == FeedbackStart \/ FeedbackAnswer \/ FeedbackClose \/ FeedbackReview

SpecFeedback == Init /\ [][NextFeedback]_vars

\* C11: whatever the provider returned to the analysis, the feedback stored
\* and the feedback shown have all eight fields; the stored feedback is a
\* complete default whenever the provider's output was not a complete
\* object; and an answer request that ends the interview stores feedback.
C11_FeedbackComplete ==
    /\ feedback.stored # NoText =>
          /\ feedback.stored.kind = "json"
          /\ DOMAIN feedback.stored.dict = FeedbackKeys
          /\ (feedback.raw.kind # "json" \/ DOMAIN feedback.raw.dict # FeedbackKeys)
                => feedback.stored.dict \in {ErrorFeedback, DecodeErrorFeedback}
    /\ (resp.op = "review" /\ resp.code = 200) => DOMAIN resp.ai_feedback = FeedbackKeys
    /\ (resp.op = "answer" /\ resp.complete) => feedback.stored # NoText

\* The provider's object lacked a key when the interview closed, and the
\* page was shown afterwards.
C11_Witness ==
    /\ status = "COMPLETED"
    /\ resp.op = "review"
    /\ feedback.raw.kind = "json"
    /\ Cardinality(DOMAIN feedback.raw.dict) = Cardinality(FeedbackKeys) - 1
    /\ feedback.stored.dict = ErrorFeedback
    /\ resp.ai_feedback = ErrorFeedback

\* C12: both scores shown are integers between 0 and 100, whatever the
\* provider reported.
C12_ScoresClamped ==
    (resp.op = "review" /\ resp.code = 200) =>
        \A k \in ScoreKeys :
            /\ resp.ai_feedback[k].type = "int"
            /\ resp.ai_feedback[k].n \in 0..100

\* C13: the three list fields a review shows are lists, and a stored scalar
\* is shown as a list of one element.
C13_ListFieldsAreLists ==
    (resp.op = "review" /\ resp.code = 200) =>
        \A k \in ListKeys :
            /\ resp.ai_feedback[k].type = "list"
            /\ feedback.stored.dict[k].type # "list" => resp.ai_feedback[k].n = 1

-----------------------------------------------------------------------------
(* Session creation: the setup form with its resume upload, then the       *)
(* requests of the created session.                                        *)

\* The extensions of the files a user can pick.
UploadExtensions == {"pdf", "docx", "txt", "doc", "exe"}

\* request.FILES.get('resume_file'): nothing, or a file with its extension
\* and whether its size is above 5 * 1024 * 1024 bytes.
Uploads ==
    {NoUpload} \cup [present : {TRUE}, ext : UploadExtensions, big : BOOLEAN]

\* The values the interview_track field can be posted with.
TrackInputs == Tracks \cup {"other"}

\* parse_resume_file: the extractor chosen by the file name's ending.
parse_resume_file(upload) ==
    IF ~upload.present THEN ""
    ELSE IF upload.ext = "pdf" THEN "extract_text_from_pdf"
    ELSE IF upload.ext \in {"docx", "doc"} THEN "extract_text_from_docx"
    ELSE "read_as_text"

\* InterviewSetupForm.clean_resume_file: TRUE when the field validates.
clean_resume_file(upload) ==
    \/ ~upload.present
    \/ /\ upload.ext \in {"pdf", "docx", "txt"}
       /\ ~upload.big

\* InterviewSetupForm.is_valid(): the model fields, the track choice and
\* the upload.
is_valid(fieldsOk, track, upload) ==
    /\ fieldsOk
    /\ track \in Tracks
    /\ clean_resume_file(upload)

\* The fields form.save(commit=False) and the view write on the new row:
\* Meta.fields is job_role and key_skills, the view sets user, status,
\* start_time, the resume data and the file; none of them is the track.
StoredTrack(track) == ""

\* interview_setup, POST, lines 1318-1382.
SetupPost ==
    /\ ~setup.created
    /\ \E upload \in Uploads, track \in TrackInputs, fieldsOk \in BOOLEAN,
          saveOk \in BOOLEAN :
          LET extractor == IF upload.present THEN parse_resume_file(upload) ELSE ""
              valid == is_valid(fieldsOk, track, upload)
          IN  IF valid /\ saveOk
              THEN /\ setup' = [upload |-> upload, track |-> track,
                                extractor |-> extractor, created |-> TRUE,
                                stored_track |-> StoredTrack(track)]
                   /\ turns' = <<>>
                   /\ status' = "STARTED"
                   /\ end_time' = FALSE
                   /\ feedback' = NoFeedback
                   /\ resp' = Plain("setup", 302, "")
              ELSE /\ setup' = [upload |-> upload, track |-> track,
                                extractor |-> extractor, created |-> FALSE,
                                stored_track |-> ""]
                   /\ resp' = Plain("setup", 200, IF valid THEN "save" ELSE "form")
                   /\ UNCHANGED <<turns, status, end_time, feedback>>
    /\ UNCHANGED <<configVars, gen, reqs, stage, submitted>>

\* The requests of the created session.
SetupStart == setup.created /\ ScriptStart

SetupAnswer == setup.created /\ ScriptAnswer

SetupReview == setup.created /\ Review

NextSetup == SetupPost \/ SetupStart \/ SetupAnswer \/ SetupReview

SpecSetup == InitScript /\ [][NextSetup]_vars

\* C18: parse_resume_file runs only on an upload that passes the extension
\* and size check (pdf, docx or txt, and within the byte limit).
C18_ExtractorAfterValidation ==
    setup.extractor # "" =>
        /\ setup.upload.ext \in {"pdf", "docx", "txt"}
        /\ ~setup.upload.big

\* C19: the created session holds the track chosen in the form, at creation
\* and after every later request.
C19_TrackStored ==
    setup.created => setup.stored_track = setup.track

-----------------------------------------------------------------------------
(* The scripted interview with its hints requests and reviews: where a     *)
(* stage is computed and where the session is marked completed.            *)

\* get_interview_hints_api, lines 2162-2261: the response's interview_stage
\* is get_interview_stage(current_question) of the posted payload.
HintsRequest(method, bodyOk, current_question) ==
    /\ IF method # "POST"
       THEN /\ resp' = Plain("hints", 405, "method")
            /\ stage' = stage
       ELSE IF ~bodyOk
       THEN /\ resp' = Plain("hints", 400, "json")
            /\ stage' = stage
       ELSE /\ resp' = Plain("hints", 200, "")
            /\ stage' = [stage EXCEPT
                           !.question_number = current_question,
                           !.result = get_interview_stage(current_question)]
    /\ UNCHANGED <<turns, status, end_time, feedback, configVars, gen, reqs, setup,
                   submitted>>

Hints ==
    \E method \in {"GET", "POST"}, bodyOk \in BOOLEAN,
       current_question \in 1..MaxQuestionNumber :
          /\ (method = "GET" \/ ~bodyOk) => current_question = 1
          /\ (method = "GET") => bodyOk
          /\ HintsRequest(method, bodyOk, current_question)

\* The session's track is the one chosen in the form; no stage computed yet.
InitClosing ==
    /\ InitSessionConfig
    /\ AI_INITIALIZED
    /\ gen = NoCall
    /\ InitSession
    /\ reqs = NoRequests
    /\ SideIdle({"stage"})
    /\ stage \in [question_number : {0}, track : Tracks, result : {""}]

NextClosing == ScriptStart \/ ScriptAnswer \/ Hints \/ Review

SpecClosing == InitClosing /\ [][NextClosing]_vars

\* C20: no stage computed by the classifier is `completed`, and the session
\* is marked completed only by the answer request that has just written the
\* closing turn.
C20_CompletedOnlyAfterClosing ==
    [][/\ stage'.result # "completed"
       /\ (status # "COMPLETED" /\ status' = "COMPLETED")
             => /\ resp'.op = "answer"
                /\ resp'.complete
                /\ Len(turns') = Len(turns) + 1]_vars

-----------------------------------------------------------------------------
(* Further properties of the handlers and of the provider calls            *)

\* What a response must not tell the end user of a failed generation.
InternalDiagnostics == {"exception", "ai_provider", "ai_initialized"}

\* C21: a response of the answer endpoint that reports a generation failure
\* (no provider available, or no text generated) carries no exception text,
\* no provider identity and no initialisation state.
C21_NoRawDiagnostics ==
    (resp.op = "answer" /\ resp.error \in {"unavailable", "generation"})
        => resp.debug_info \cap InternalDiagnostics = {}

\* C22: within one call, a Gemini attempt blocked for safety reasons (an
\* empty response whose finish reason is SAFETY, or an error naming SAFETY)
\* is the last attempt of the call.
C22_SafetyBlockAborts ==
    \A i \in 1..Len(gen.log) :
        (/\ gen.log[i].provider = "gemini"
         /\ gen.log[i].outcome \in {"EMPTY_SAFETY", "ERR_SAFETY"})
        => i = Len(gen.log)

\* The turns nobody answered.
Unanswered(ts) == { i \in 1..Len(ts) : ts[i].user_answer = None }

\* C23: at most one turn of the session has no answer, and it is the turn
\* with the highest turn number.
C23_OneOpenTurn ==
    /\ Cardinality(Unanswered(turns)) <= 1
    /\ \A i \in Unanswered(turns) : i \in LastTurnIndexes(turns)

\* C24: a request on a session whose status is COMPLETED adds no turn and
\* attaches no answer.
C24_CompletedIsFrozen ==
    [][status = "COMPLETED" => turns' = turns]_vars

\* An answer request, kept beside the session as it was sent.
Submit ==
    \E in \in AnswerInputs :
        /\ in.text \in GenerationResults(AI_PROVIDER, AI_INITIALIZED)
        /\ Room(in.text, in.createOk)
        /\ AnswerRequest(in.method, in.bodyOk, in.answer, in.late, in.saveOk,
                         in.text, in.createOk, NoText)
        /\ submitted' = [method |-> in.method, bodyOk |-> in.bodyOk,
                         answer |-> in.answer]
        /\ UNCHANGED <<configVars, gen, reqs, stage, setup>>

\* The candidate starts the interview and answers.
NextAnswers == Start \/ Submit

SpecAnswers == Init /\ [][NextAnswers]_vars

\* C25: when an answer request ends by creating a new turn, the text it
\* submitted is the stored answer of the turn that was the latest before it.
C25_NoAnswerLost ==
    [][(resp'.op = "answer" /\ resp'.code = 200 /\ Len(turns') = Len(turns) + 1)
          => /\ Len(turns) > 0
             /\ \A i \in LastTurnIndexes(turns) :
                    turns'[i].user_answer = submitted'.answer]_vars

\* C26: a start request on a session that has a turn leaves the turns as
\* they are and answers with the question and the number of the latest turn.
C26_RestartKeepsTurns ==
    [][(Len(turns) > 0 /\ resp'.op = "start")
          => /\ turns' = turns
             /\ resp'.code = 200
             /\ \E i \in LastTurnIndexes(turns) :
                    /\ resp'.text = turns[i].ai_question
                    /\ resp'.question = turns[i].turn_number]_vars

\* A start request was answered from the second turn, whose predecessor
\* holds an answer.
C26_Witness ==
    /\ resp.op = "start"
    /\ Len(turns) = 2
    /\ resp.question = 2
    /\ resp.text = turns[2].ai_question
    /\ turns[1].user_answer # None

\* C27: an answer request with a wrong method, sent while no provider is
\* initialised, with a body that does not parse or with an empty answer is
\* answered with an error and leaves the session and its turns as they are.
C27_RejectedChangesNothing ==
    [][(/\ resp'.op = "answer"
        /\ submitted' # NoSubmission
        /\ \/ submitted'.method # "POST"
           \/ ~AI_INITIALIZED
           \/ ~submitted'.bodyOk
           \/ submitted'.answer = "")
          => /\ resp'.code \in {400, 405, 503}
             /\ UNCHANGED <<turns, status, end_time, feedback>>]_vars

\* An empty answer was turned away on a session whose first turn is open.
C27_Witness ==
    /\ resp.op = "answer"
    /\ resp.error = "empty"
    /\ submitted.method = "POST"
    /\ submitted.bodyOk
    /\ submitted.answer = ""
    /\ Len(turns) = 1
    /\ turns[1].user_answer = None

\* C28: a session whose status is COMPLETED has its end time set.
C28_CompletedHasEndTime == status = "COMPLETED" => end_time

-----------------------------------------------------------------------------
(* A long interview: the provider gives a question or nothing, the         *)
(* candidate answers, and presses "Start Interview" again at any time.     *)

\* The turns a long interview records before the run stops adding turns.
MaxLongTurns == 14

LongTexts == {"Q", ""}

\* main_interview, POST: call_ai_model is called only when the session has
\* no turn yet.
LongStart ==
    IF Len(turns) = 0
    THEN \E text \in LongTexts \cap GenerationResults(AI_PROVIDER, AI_INITIALIZED) :
             StartPost(text, TRUE)
    ELSE StartPost("", TRUE)

\* ai_interaction_api, in time (interview_duration <= 25) and with both
\* writes succeeding.
LongAnswer ==
    /\ Len(turns) > 0
    /\ \E text \in LongTexts \cap GenerationResults(AI_PROVIDER, AI_INITIALIZED) :
          /\ text # "" => Len(turns) < MaxLongTurns
          /\ AnswerRequest("POST", TRUE, "a1", FALSE, TRUE, text, TRUE, NoText)
    /\ UNCHANGED <<configVars, gen, reqs, sideVars>>

NextLong == LongStart \/ LongAnswer \/ PageLoad

SpecLong == InitScript /\ [][NextLong]_vars

\* C29: an answer request on a session of 12 or more turns whose generation
\* succeeds writes the new turn and completes the session in the same
\* request, and a session in progress never has more than 12 turns.
C29_NoTurnPastThirteen ==
    /\ [][(resp'.op = "answer" /\ resp'.code = 200 /\ Len(turns) >= MaxQuestions)
             => /\ Len(turns') = Len(turns) + 1
                /\ status' = "COMPLETED"]_vars
    /\ [](status = "STARTED" => Len(turns) <= MaxQuestions)

-----------------------------------------------------------------------------
(* The retry loop of one provider call                                     *)

\* The outcome of the last attempt of the call.
LastOutcome == gen.log[Len(gen.log)].outcome

\* C30: a text generation call makes at most 3 attempts against its
\* provider; an attempt that returns a text is the last one and its text is
\* what the call returns; after a third attempt without a text the call has
\* no text (an empty result, or for OpenAI an error, which call_ai_model
\* answers from the fallback list).
C30_AtMostThreeAttempts ==
    /\ Len(gen.log) <= 3
    /\ \A i \in 1..Len(gen.log) :
          gen.log[i].outcome \in ProviderTexts
          => /\ i = Len(gen.log)
             /\ gen.phase = "returned"
             /\ gen.text = gen.log[i].outcome
    /\ (gen.phase = "returned" /\ Len(gen.log) = 3 /\ LastOutcome \notin ProviderTexts)
          => \/ gen.text = "" /\ gen.entry = 0
             \/ /\ gen.text = "F"
                /\ gen.entry # 0
                /\ gen.log[3].provider = "openai"
                /\ LastOutcome \notin {"EMPTY", "EMPTY_SAFETY"}

\* Two Gemini attempts raised, the third answered without a text, and the
\* call returned nothing.
C30_Witness ==
    /\ gen.phase = "returned"
    /\ Len(gen.log) = 3
    /\ gen.log[1].outcome = "ERR"
    /\ gen.log[2].outcome = "ERR"
    /\ gen.log[3].provider = "gemini"
    /\ gen.log[3].outcome = "EMPTY"
    /\ gen.text = ""

====
